---- MODULE Spec2Model ----
(***************************************************************************)
(* A model of src/src/main.py: the directory-listing generator.  One run   *)
(* of main() changes into the target directory, walks the tree once to     *)
(* count files and bytes, then walks it again and writes an index.html     *)
(* into every directory that has none.  The file system persists from one  *)
(* run to the next; everything else is local to a run.                     *)
(*                                                                         *)
(* Names and paths are sequences of one-character strings, so that the     *)
(* string operations of the source (startswith, slicing, comparison,       *)
(* sort) are computed rather than assumed.  A page is the sequence of the   *)
(* parts written to it; the icon and the modification-time column of a     *)
(* row, which come from files outside main.py and from the file's mtime,   *)
(* are left out of a row.                                                  *)
(***************************************************************************)
EXTENDS Integers, Sequences, FiniteSets, TLC

VARIABLES
    parent,       \* the tree: parent[d] is the directory holding directory d
    files,        \* the tree: files[<<d, name>>] is the size of file name of d
    index,        \* index[d]: the content of d/index.html, where there is one
    now,          \* the wall clock read by dt.datetime.now()
    runs,         \* how many runs of the program have been started
    pc,           \* where the current run is: start, totals, render or exit
    argv,         \* the command line of the current run
    diag,         \* the diagnostic the current run printed before sys.exit()
    status,       \* the exit status of the current run, once pc is exit
    exc,          \* the uncaught exception that ended the current run
    stack,        \* os.walk: the directories still to be yielded, next first
    total_files,  \* main's total_files
    total_size,   \* main's total_size
    visits,       \* visits[d]: times the rendering walk yielded d in this run
    opens,        \* opens[d]: times this run opened d/index.html for writing
    written       \* directories whose index.html this run has written fully

vars == <<parent, files, index, now, runs, pc, argv, diag, status, exc,
          stack, total_files, total_size, visits, opens, written>>

----------------------------------------------------------------------------
(* Bounds of the model. *)

MaxRuns == 2
MaxClock == 1

----------------------------------------------------------------------------
(* Characters and strings. *)

Chars == {".", "/", "I", "a", "b", "d", "e", "f", "h", "i", "l", "m", "n", "t", "x"}

\* ord(c): the code point Python compares characters by.
Code ==
    [c \in Chars |->
        CASE c = "." -> 46 [] c = "/" -> 47 [] c = "I" -> 73 [] c = "a" -> 97
          [] c = "b" -> 98 [] c = "d" -> 100 [] c = "e" -> 101 [] c = "f" -> 102
          [] c = "h" -> 104 [] c = "i" -> 105 [] c = "l" -> 108 [] c = "m" -> 109
          [] c = "n" -> 110 [] c = "t" -> 116 [] c = "x" -> 120]

\* Python's s < t on strings: lexicographic by code point.
RECURSIVE StrLess(_, _)
StrLess(s, t) ==
    IF t = <<>> THEN FALSE
    ELSE IF s = <<>> THEN TRUE
    ELSE IF Code[Head(s)] # Code[Head(t)] THEN Code[Head(s)] < Code[Head(t)]
    ELSE StrLess(Tail(s), Tail(t))

\* s.startswith(c, at): at is Python's 0-based start offset.
startswith(s, c, at) == Len(s) > at /\ s[at + 1] = c

\* s[1:]
DropFirst(s) == SubSeq(s, 2, Len(s))

IndexHtml == <<"i", "n", "d", "e", "x", ".", "h", "t", "m", "l">>
IndexHtmlUpper == <<"I", "n", "d", "e", "x", ".", "h", "t", "m", "l">>
FTxt == <<"f", ".", "t", "x", "t">>

\* list.sort(): insertion sort by StrLess.
RECURSIVE Insert(_, _)
Insert(x, s) ==
    IF s = <<>> THEN <<x>>
    ELSE IF StrLess(x, Head(s)) THEN <<x>> \o s
    ELSE <<Head(s)>> \o Insert(x, Tail(s))

RECURSIVE sort(_)
sort(s) == IF s = <<>> THEN <<>> ELSE Insert(Head(s), sort(Tail(s)))

\* The orders in which a directory scan may return the names of a set.
Perms(S) ==
    {p \in [1..Cardinality(S) -> S] : \A i, j \in 1..Cardinality(S) : p[i] = p[j] => i = j}

RECURSIVE SumSeq(_)
SumSeq(s) == IF s = <<>> THEN 0 ELSE Head(s) + SumSeq(Tail(s))

----------------------------------------------------------------------------
(* The tree the program is run on. *)

Root == "r"
DirIds == {"r", "a", "b"}

\* The name of each directory below the root.
DirName(d) == IF d = "a" THEN <<"a">> ELSE <<".", "b">>

\* The files a tree may hold beside index.html, and the sizes a file may have.
Slots ==
    {<<"r", FTxt>>, <<"r", IndexHtmlUpper>>, <<"a", FTxt>>, <<"b", FTxt>>}

Sizes == {100, 200, 300}

\* The sizes the file of a slot may have: the one file whose name differs from
\* index.html only in case has one size, the others any.
SlotSizes(s) == IF s[2] = IndexHtmlUpper THEN {100} ELSE Sizes

\* os.walk's dirname of directory d: "." for the root, parent + "/" + name below it.
RECURSIVE dirname(_)
dirname(d) ==
    IF d = Root THEN <<".">> ELSE dirname(parent[d]) \o <<"/">> \o DirName(d)

\* The subdirectories of d, by name.
SubDirs(d) == {c \in DirIds \ {Root} : parent[c] = d}

\* The entries of d that are not directories, by name.
FileNamesIn(d) ==
    {s[2] : s \in {t \in DOMAIN files : t[1] = d}}
        \cup (IF d \in DOMAIN index THEN {IndexHtml} ELSE {})

----------------------------------------------------------------------------
(* The helpers of main.py. *)

KB == 1024

\* round(size / unit, 2), in hundredths: Python rounds an exact tie to even.
RoundHundredths(size, unit) ==
    LET q == (size * 100) \div unit
        r == (size * 100) % unit
    IN  IF 2 * r > unit \/ (2 * r = unit /\ q % 2 = 1) THEN q + 1 ELSE q

\* get_file_size on a number: the amount in hundredths of the unit, and the unit.
format_size(size) ==
    IF size < KB THEN [hundredths |-> size * 100, unit |-> "B"]
    ELSE IF size < KB * KB THEN [hundredths |-> RoundHundredths(size, KB), unit |-> "KB"]
    ELSE IF size < KB * KB * KB
        THEN [hundredths |-> RoundHundredths(size, KB * KB), unit |-> "MB"]
    ELSE [hundredths |-> RoundHundredths(size, KB * KB * KB), unit |-> "GB"]

\* os.path.getsize of an entry of d.  The size of a generated page is counted in
\* the parts written to it.
getsize(d, name) ==
    IF name = IndexHtml THEN Len(index[d]) ELSE files[<<d, name>>]

\* get_template_head: the head template with {{foldername}} replaced.
RECURSIVE get_template_head(_)
get_template_head(foldername) ==
    IF startswith(foldername, ".", 0)
    THEN IF ~startswith(foldername, "/", 1)
         THEN get_template_head(<<"/">> \o DropFirst(foldername))
         ELSE get_template_head(DropFirst(foldername))
    ELSE [kind |-> "head", foldername |-> foldername]

get_template_foot_CountForSize(files_total, size_total, clock) ==
    [kind |-> "foot", buildtime |-> clock, totalfiles |-> files_total,
     totalsize |-> format_size(files_total)]

\* get_template_foot: the foot template with its three placeholders replaced;
\* clock is what dt.datetime.now() returns at this call.
get_template_foot(files_total, size_total, clock) ==
    [kind |-> "foot", buildtime |-> clock, totalfiles |-> files_total,
     totalsize |-> format_size(size_total)]

ParentHref == <<".", ".", "/">>

has_parent_row_Always(dir) == TRUE

\* line 53: the parent row is written for every directory but the root.
has_parent_row(dir) == dir # <<".">>

parent_row(dir) ==
    IF has_parent_row(dir) THEN <<[kind |-> "parent", href |-> ParentHref]>> ELSE <<>>

dir_rows(dirnames) ==
    [k \in 1..Len(dirnames) |-> [kind |-> "dir", href |-> dirnames[k] \o <<"/">>]]

file_row(d, filename) ==
    [kind |-> "file", href |-> filename, size |-> format_size(getsize(d, filename))]

file_rows(d, filenames) ==
    [k \in 1..Len(filenames) |-> file_row(d, filenames[k])]

Range(s) == {s[k] : k \in 1..Len(s)}

counted_All(filenames) == filenames

\* line 37: the names the totals walk counts.
counted(filenames) == SelectSeq(filenames, LAMBDA n : n # IndexHtml)

already_exists_Never(filenames) == FALSE

\* line 46: whether the rendering walk skips the directory.
already_exists(filenames) == IndexHtml \in Range(filenames)

\* The directory a name of d's listing stands for.
IdOf(name) == CHOOSE c \in DirIds \ {Root} : DirName(c) = name
Ids(dirnames) == [k \in 1..Len(dirnames) |-> IdOf(dirnames[k])]

descend_TopOnly(dirnames, rest) == rest

\* os.walk after a yield: the subdirectories, in the order the caller left
\* dirnames in, are walked before the directories already waiting.
descend(dirnames, rest) == Ids(dirnames) \o rest

\* The listings one scan of d may return: the names in any order.
ScanDirs(d) == Perms({DirName(c) : c \in SubDirs(d)})
ScanFiles(d) == Perms(FileNamesIn(d))

----------------------------------------------------------------------------
(* The state before the first run. *)

UserPage == <<[kind |-> "user"]>>

NoVisits == [d \in DirIds |-> 0]

Init ==
    /\ parent \in {p \in [DirIds \ {Root} -> DirIds] : p["a"] = Root /\ p["b"] \in {Root, "a"}}
    /\ \E P \in SUBSET Slots : files \in {f \in [P -> Sizes] : \A s \in P : f[s] \in SlotSizes(s)}
    /\ \E P \in SUBSET DirIds : Cardinality(P) <= 1 /\ index = [d \in P |-> UserPage]
    /\ now = 0
    /\ runs = 1
    /\ pc = "start"
    /\ argv = "unset"
    /\ diag = ""
    /\ status = 0
    /\ exc = "none"
    /\ stack = <<>>
    /\ total_files = 0
    /\ total_size = 0
    /\ visits = NoVisits
    /\ opens = NoVisits
    /\ written = {}

tree == <<parent, files>>
ghost == <<visits, opens, written>>

----------------------------------------------------------------------------
(* main(): lines 23-32, the command line. *)

\* lines 30-32: no directory is given.
NoDirectory ==
    /\ pc = "start"
    /\ argv' = "none"
    /\ diag' = "No directory specified"
    /\ status' = 0
    /\ pc' = "exit"
    /\ UNCHANGED <<tree, index, now, runs, exc, stack, total_files, total_size, ghost>>

\* lines 25-29: os.chdir raises OSError.
ChdirFails ==
    /\ pc = "start"
    /\ argv' = "baddir"
    /\ diag' = "Cannot change the current working directory"
    /\ status' = 0
    /\ pc' = "exit"
    /\ UNCHANGED <<tree, index, now, runs, exc, stack, total_files, total_size, ghost>>

\* lines 23-26: os.chdir succeeds; the totals walk starts at ".".
ChdirOk ==
    /\ pc = "start"
    /\ argv' = "dir"
    /\ pc' = "totals"
    /\ stack' = <<Root>>
    /\ UNCHANGED <<tree, index, now, runs, diag, status, exc, total_files, total_size, ghost>>

----------------------------------------------------------------------------
(* main(): lines 35-42, the totals walk. *)

\* One iteration of the loop of line 35, every getsize succeeding.
TotalsVisit ==
    /\ pc = "totals"
    /\ stack # <<>>
    /\ LET d == Head(stack) IN
       \E dirnames \in ScanDirs(d), scanned \in ScanFiles(d) :
          LET filenames == counted(scanned) IN
          /\ total_files' = total_files + Len(filenames)
          /\ total_size' = total_size
                + SumSeq([k \in 1..Len(filenames) |-> getsize(d, filenames[k])])
          /\ stack' = descend(dirnames, Tail(stack))
    /\ UNCHANGED <<tree, index, now, runs, pc, argv, diag, status, exc, ghost>>

\* One iteration of the loop of line 35 in which the getsize of line 42 raises
\* OSError for the k-th counted file: nothing catches it and the run ends.
TotalsStatFails ==
    /\ pc = "totals"
    /\ stack # <<>>
    /\ LET d == Head(stack) IN
       \E scanned \in ScanFiles(d) :
          LET filenames == counted(scanned) IN
          \E k \in 1..Len(filenames) :
             /\ total_files' = total_files + Len(filenames)
             /\ total_size' = total_size
                   + SumSeq([j \in 1..(k - 1) |-> getsize(d, filenames[j])])
    /\ exc' = "OSError:getsize"
    /\ status' = 1
    /\ pc' = "exit"
    /\ stack' = <<>>
    /\ UNCHANGED <<tree, index, now, runs, argv, diag, ghost>>

\* The loop of line 35 is exhausted; the loop of line 45 starts at ".".
StartRender ==
    /\ pc = "totals"
    /\ stack = <<>>
    /\ pc' = "render"
    /\ stack' = <<Root>>
    /\ UNCHANGED <<tree, index, now, runs, argv, diag, status, exc,
                   total_files, total_size, ghost>>

----------------------------------------------------------------------------
(* main(): lines 45-71, the rendering walk. *)

\* The file system once page is the content of d/index.html.
write(d, page) ==
    [x \in DOMAIN index \cup {d} |-> IF x = d THEN page ELSE index[x]]

\* What lines 51-62 write: the head, the parent row and the directory rows.
page_top(d, dirnames) ==
    <<get_template_head(dirname(d))>> \o parent_row(dirname(d)) \o dir_rows(dirnames)

\* lines 46-47: the directory holds an index.html and is skipped.  Its dirnames
\* are left in scan order, and os.walk descends in that order.
RenderSkip ==
    /\ pc = "render"
    /\ stack # <<>>
    /\ LET d == Head(stack) IN
       \E dirnames \in ScanDirs(d), filenames \in ScanFiles(d) :
          /\ already_exists(filenames)
          /\ visits' = [visits EXCEPT ![d] = @ + 1]
          /\ stack' = descend(dirnames, Tail(stack))
    /\ UNCHANGED <<tree, index, now, runs, pc, argv, diag, status, exc,
                   total_files, total_size, opens, written>>

\* lines 48-71: the page of the directory is written from head to foot.  The
\* clock read at line 129 returns any time not before the last one read.
RenderGenerate ==
    /\ pc = "render"
    /\ stack # <<>>
    /\ LET d == Head(stack) IN
       \E scandirs \in ScanDirs(d), scanned \in ScanFiles(d), clock \in now..MaxClock :
          LET dirnames == sort(scandirs)
              filenames == sort(scanned)
          IN  /\ ~already_exists(scanned)
              /\ index' = write(d,
                    page_top(d, dirnames) \o file_rows(d, filenames)
                        \o <<get_template_foot(total_files, total_size, clock)>>)
              /\ now' = clock
              /\ visits' = [visits EXCEPT ![d] = @ + 1]
              /\ opens' = [opens EXCEPT ![d] = @ + 1]
              /\ written' = written \cup {d}
              /\ stack' = descend(dirnames, Tail(stack))
    /\ UNCHANGED <<tree, runs, pc, argv, diag, status, exc, total_files, total_size>>

\* line 50: open() raises OSError; nothing catches it and the run ends.
RenderOpenFails ==
    /\ pc = "render"
    /\ stack # <<>>
    /\ LET d == Head(stack) IN
       \E scanned \in ScanFiles(d) :
          /\ ~already_exists(scanned)
          /\ visits' = [visits EXCEPT ![d] = @ + 1]
    /\ exc' = "OSError:open"
    /\ status' = 1
    /\ pc' = "exit"
    /\ stack' = <<>>
    /\ UNCHANGED <<tree, index, now, runs, argv, diag, total_files, total_size,
                   opens, written>>

\* lines 66-69: the stat of the k-th file (os.path.getsize at line 83 or
\* os.path.getmtime at line 102) raises OSError while its row is built.
\* The with statement closes the file with what was written before, nothing
\* catches the exception and the run ends.
RenderStatFails ==
    /\ pc = "render"
    /\ stack # <<>>
    /\ LET d == Head(stack) IN
       \E scandirs \in ScanDirs(d), scanned \in ScanFiles(d) :
          LET dirnames == sort(scandirs)
              filenames == sort(scanned)
          IN  /\ ~already_exists(scanned)
              /\ \E k \in 1..Len(filenames) :
                    index' = write(d,
                        page_top(d, dirnames) \o file_rows(d, SubSeq(filenames, 1, k - 1)))
              /\ visits' = [visits EXCEPT ![d] = @ + 1]
              /\ opens' = [opens EXCEPT ![d] = @ + 1]
    /\ exc' = "OSError:getsize"
    /\ status' = 1
    /\ pc' = "exit"
    /\ stack' = <<>>
    /\ UNCHANGED <<tree, now, runs, argv, diag, total_files, total_size, written>>

\* lines 73-75: the walk is exhausted, the totals are printed and main returns.
Finish ==
    /\ pc = "render"
    /\ stack = <<>>
    /\ pc' = "exit"
    /\ status' = 0
    /\ UNCHANGED <<tree, index, now, runs, argv, diag, exc, stack,
                   total_files, total_size, ghost>>

\* The program is started again on the tree the last run left (line 158).
Rerun ==
    /\ pc = "exit"
    /\ runs < MaxRuns
    /\ runs' = runs + 1
    /\ pc' = "start"
    /\ argv' = "unset"
    /\ diag' = ""
    /\ status' = 0
    /\ exc' = "none"
    /\ stack' = <<>>
    /\ total_files' = 0
    /\ total_size' = 0
    /\ visits' = NoVisits
    /\ opens' = NoVisits
    /\ written' = {}
    /\ UNCHANGED <<tree, index, now>>

Next ==
    \/ NoDirectory
    \/ ChdirFails
    \/ ChdirOk
    \/ TotalsVisit
    \/ TotalsStatFails
    \/ StartRender
    \/ RenderSkip
    \/ RenderGenerate
    \/ RenderOpenFails
    \/ RenderStatFails
    \/ Finish
    \/ Rerun

Spec == Init /\ [][Next]_vars

----------------------------------------------------------------------------
(* What the properties below speak of. *)

\* Every entry of the tree that is not a directory, as <<directory, name>>.
Entries == UNION {{<<d, n>> : n \in FileNamesIn(d)} : d \in DirIds}

\* A name with its letters in lower case, for a comparison that ignores case.
LowerChar(c) == IF c = "I" THEN "i" ELSE c
Lower(s) == [k \in 1..Len(s) |-> LowerChar(s[k])]

RECURSIVE SumSizes(_)
SumSizes(S) ==
    IF S = {} THEN 0
    ELSE LET e == CHOOSE x \in S : TRUE IN getsize(e[1], e[2]) + SumSizes(S \ {e})

\* The entries not named index.html, by exact and by case-insensitive comparison.
NotIndexExact == {e \in Entries : e[2] # IndexHtml}
NotIndexAnyCase == {e \in Entries : Lower(e[2]) # IndexHtml}

Generated(d) == d \in DOMAIN index /\ index[d] # UserPage
Kinds(page) == {page[k].kind : k \in 1..Len(page)}
IsComplete(page) == page = UserPage \/ (page # <<>> /\ page[Len(page)].kind = "foot")
Foot(d) == index[d][Len(index[d])]
RowsOf(page, kind) == {k \in 1..Len(page) : page[k].kind = kind}

\* The run has ended by main returning.
Returned == pc = "exit" /\ argv = "dir" /\ exc = "none"

----------------------------------------------------------------------------
(* The claims. *)

\* C1: an index.html that is on disk is never opened for writing and never
\* changes, in any step of any run: the rendering walk skips its directory.
C1_ExistingIndexUntouched ==
    [][\A d \in DOMAIN index :
          /\ d \in DOMAIN index'
          /\ index'[d] = index[d]
          /\ opens'[d] <= opens[d]]_vars

\* C1 witness: a second run has returned after skipping a directory whose page
\* an earlier run generated.
C1_Witness ==
    /\ Returned
    /\ runs = 2
    /\ \E d \in DirIds : Generated(d) /\ visits[d] = 1 /\ opens[d] = 0

\* C2: no generated page has a file row for index.html, and once the totals
\* walk is over total_files and total_size are the number and the summed sizes
\* of the entries other than index.html.
C2_IndexHtmlExcluded ==
    /\ \A d \in DOMAIN index :
          \A k \in RowsOf(index[d], "file") : index[d][k].href # IndexHtml
    /\ pc = "render" =>
          /\ total_files = Cardinality(NotIndexExact)
          /\ total_size = SumSizes(NotIndexExact)

\* C2 witness: the totals walk of a second run is over on a tree that holds a
\* page generated earlier with file rows, and files to count.
C2_Witness ==
    /\ pc = "render"
    /\ runs = 2
    /\ total_files > 0
    /\ \E d \in DirIds : Generated(d) /\ RowsOf(index[d], "file") # {}

C4_EveryDirectoryOnce ==
    /\ \A d \in DirIds : visits[d] <= 1 /\ opens[d] <= 1
    /\ Returned => \A d \in DirIds : visits[d] = 1 /\ d \in DOMAIN index

\* C4 witness: main has returned from a run that generated the page of a
\* directory one level down and of one two levels down.
C4_Witness ==
    /\ Returned
    /\ parent["b"] = "a"
    /\ {"a", "b"} \subseteq written

\* C5: a run without a directory argument, or with one that cannot be entered,
\* ends with a non-zero exit status and a diagnostic, having written no page.
C5_FatalStartupExitsNonZero ==
    (pc = "exit" /\ argv \in {"none", "baddir"}) =>
        /\ status # 0
        /\ diag # ""
        /\ written = {}
        /\ \A d \in DirIds : opens[d] = 0

\* C6: no run is ended by the stat of a file failing: the run goes on to yield
\* every directory to the rendering walk.
C6_StatFailureNeverAborts ==
    (pc = "exit" /\ argv = "dir") =>
        /\ exc # "OSError:getsize"
        /\ (exc = "none" => \A d \in DirIds : visits[d] = 1)

\* C7: when a run has ended, no failure to open an index.html has stopped it,
\* and every directory without an index.html has been yielded for rendering.
C7_WriteFailureSwallowed ==
    (pc = "exit" /\ argv = "dir" /\ exc # "OSError:getsize") =>
        /\ exc # "OSError:open"
        /\ \A d \in DirIds : d \notin DOMAIN index => visits[d] = 1

\* C8: the pages generated in one run carry the same build time.
C8_OneBuildTimePerRun ==
    \A d, e \in written : Foot(d).buildtime = Foot(e).buildtime

\* C9: a generated page that is complete starts with its head; the root's shows
\* "/" and has no parent row; any other has exactly one parent row, with href
\* "../", before every directory row and file row, and no other row links to
\* "../".
C9_RootAndParentRow ==
    \A d \in DirIds :
        (Generated(d) /\ IsComplete(index[d])) =>
            LET page == index[d]
                rows == RowsOf(page, "dir") \cup RowsOf(page, "file")
            IN  /\ page[1].kind = "head"
                /\ RowsOf(page, "head") = {1}
                /\ d = Root =>
                      /\ page[1].foldername = <<"/">>
                      /\ RowsOf(page, "parent") = {}
                /\ d # Root =>
                      /\ RowsOf(page, "parent") = {2}
                      /\ page[2].href = ParentHref
                      /\ \A k \in rows : k > 2 /\ page[k].href # ParentHref

\* C9 witness: the root's page, with a directory row and a file row, and the
\* page of a directory below it that also has both, are complete.
C9_Witness ==
    /\ parent["b"] = "a"
    /\ \A d \in {Root, "a"} :
          /\ Generated(d)
          /\ IsComplete(index[d])
          /\ RowsOf(index[d], "dir") # {}
          /\ RowsOf(index[d], "file") # {}

\* C10: every index.html on disk is complete, from head to foot.
C10_EveryIndexComplete ==
    \A d \in DOMAIN index : IsComplete(index[d])

====
